---- MODULE Spec2Model ----
(***************************************************************************)
(* funcworks: the run-level model compiler (GetRunModelInfo) and the       *)
(* higher-level aggregator (GenerateHigherInfo) of                         *)
(* funcworks/interfaces/modelgen.py.                                       *)
(*                                                                         *)
(* Conventions of the model                                                *)
(*  - A predictor or contrast name of the run level is the sequence of its *)
(*    '.'-separated pieces: "trial_type.go" is <<"trial_type","go">> and   *)
(*    "rot_x" is <<"rot_x">>.  '.' in name  is  Len(name) > 1  and         *)
(*    name.split('.') is the sequence itself.                              *)
(*  - A Python dict is a function from its keys; d.update(u) is u @@ d.    *)
(*  - An optional input (None or a value) is <<>> or <<value>>.            *)
(*  - A number of a weight vector is a fraction <<numerator, denominator>>.*)
(*  - A raised exception ends the invocation: pc = "failed" and error      *)
(*    names the exception.                                                 *)
(***************************************************************************)
EXTENDS Integers, Sequences, FiniteSets, TLC

\* ------------------------------------------------------------------ bounds
\* Longest predictor list Model.X that is enumerated.
MaxX == 2

\* Longest list of stat maps handed to the aggregator that is enumerated.
MaxMaps == 4
\* Number of times the aggregator is invoked in one working directory.
MaxInvocations == 2

\* ------------------------------------------------------------ input pools
TrialGo == <<"trial_type", "go">>
TrialStop == <<"trial_type", "stop">>
\* an event-derived predictor whose column the event table does not have
ResponseLeft == <<"response", "left">>
\* a predictor with two dots
TrialGoFast == <<"trial_type", "go", "fast">>
RotX == <<"rot_x">>
\* a confound-derived predictor whose column the confound table lacks
Csf == <<"csf">>

PredictorPool == {TrialGo, TrialStop, ResponseLeft, TrialGoFast, RotX, Csf}

\* The columns of every enumerated event table and confound table.
EventColumns == {"onset", "duration", "trial_type"}
ConfoundColumns == {"rot_x", "rot_y", "rot_z", "trans_x", "trans_y", "trans_z"}

\* Rows an event table is made of, listed by onset.
EventRowPool ==
    << [onset |-> 0, duration |-> 1, trial_type |-> "go"],
       [onset |-> 2, duration |-> 1, trial_type |-> "stop"],
       [onset |-> 4, duration |-> 2, trial_type |-> "go"] >>

\* Row counts of the enumerated confound tables.
VolumeChoices == {4, 120}

\* detrend_poly: None, or a polynomial degree.
DetrendChoices == {<<>>, <<0>>, <<2>>}

Frac(n) == <<n, 1>>

GoMinusStop ==
    [Name |-> <<"go_minus_stop">>, Type |-> "T",
     ConditionList |-> <<TrialGo, TrialStop>>,
     Weights |-> <<Frac(1), Frac(-1)>>]
TaskVsBaseline ==
    [Name |-> <<"task_vs_baseline">>, Type |-> "t",
     ConditionList |-> <<TrialGo, TrialStop>>,
     Weights |-> <<Frac(1), Frac(1)>>]
GoOnly ==
    [Name |-> <<"go_only">>, Type |-> "t",
     ConditionList |-> <<TrialGo>>,
     Weights |-> <<Frac(1)>>]

ContrastPool == <<GoMinusStop, TaskVsBaseline, GoOnly>>

\* The DummyContrasts section: absent, present without Conditions, or
\* present with a Conditions list.
DummyChoices ==
    { [present |-> FALSE, hasConditions |-> FALSE, Conditions |-> <<>>],
      [present |-> TRUE, hasConditions |-> FALSE, Conditions |-> <<>>],
      [present |-> TRUE, hasConditions |-> TRUE,
       Conditions |-> <<TrialStop, TrialGo>>],
      [present |-> TRUE, hasConditions |-> TRUE,
       Conditions |-> <<RotX, ResponseLeft>>] }

\* ----------------------------------------------------------------- helpers
SeqsUpTo(S, n) == UNION { [1..k -> S] : k \in 0..n }

\* The sequences of SeqsUpTo(S, n) that list no element twice.
DistinctSeqsUpTo(S, n) ==
    { s \in SeqsUpTo(S, n) :
        \A i, j \in 1..Len(s) : i # j => s[i] # s[j] }

\* The subsequence of s at the positions in keep.
RECURSIVE Pick(_, _, _)
Pick(s, keep, i) ==
    IF i > Len(s) THEN <<>>
    ELSE (IF i \in keep THEN <<s[i]>> ELSE <<>>) \o Pick(s, keep, i + 1)

SubSeqsOf(s) == { Pick(s, keep, 1) : keep \in SUBSET (1..Len(s)) }

Range(s) == { s[i] : i \in 1..Len(s) }

Update(d, u) == u @@ d

VARIABLES
    \* GetRunModelInfo
    model,              \* self.inputs.model
    detrend_poly,       \* self.inputs.detrend_poly
    event_data,         \* the run's events.tsv
    n_rows,             \* number of rows of the run's confound table
    pc,                 \* position in GetRunModelInfo._list_outputs
    error,              \* the exception that ended the invocation, or "none"
    error_at,           \* index in Model.X of the predictor that raised, or 0
    run_info,           \* outputs['run_info']
    event_regressors,   \* the conditions returned by _get_model_info
    run_contrasts,      \* outputs['run_contrasts']
    contrast_names,     \* outputs['contrast_names']
    run_entities,       \* outputs['run_entities']
    contrast_entities,  \* outputs['contrast_entities']
    \* GenerateHigherInfo
    contrast_maps,      \* zip(inputs.contrast_maps, inputs.contrast_metadata)
    higher_model,       \* self.inputs.model: its DummyContrasts section
    align_volumes,      \* self.inputs.align_volumes
    hpc,                \* position in GenerateHigherInfo._list_outputs
    herror,             \* the exception that ended the invocation, or "none"
    invocations,        \* number of invocations started in this directory
    organization,       \* the buckets of _get_organization, in key order
    dummy_contrasts,    \* the contrasts _merge_maps iterates over
    maps_info,          \* the lists _merge_maps returns
    matrix_paths,       \* the lists _produce_matrices returns
    image_files,        \* merged images saved under Path.cwd(), by path
    matrix_files        \* matrix files under Path.cwd(), by path

runVars == <<model, detrend_poly, event_data, n_rows, pc, error, error_at,
             run_info, event_regressors, run_contrasts, contrast_names,
             run_entities, contrast_entities>>

higherVars == <<contrast_maps, higher_model, align_volumes, hpc, herror,
                invocations, organization, dummy_contrasts, maps_info,
                matrix_paths, image_files, matrix_files>>

vars == <<runVars, higherVars>>

\* ------------------------------------------------- GetRunModelInfo helpers
EmptyDict == [k \in {} |-> k]

\* '{:02}'.format(n) and f'{n:02d}'
Pad2(n) == IF n < 10 THEN "0" \o ToString(n) ELSE ToString(n)

\* parse_file_entities(functional_file) of the run that is compiled
FunctionalEntities == [subject |-> "01", task |-> "stopsignal", run |-> 1]

EmptyRunInfo ==
    [conditions |-> <<>>, onsets |-> <<>>, amplitudes |-> <<>>,
     durations |-> <<>>, regressor_names |-> <<>>, regressors |-> <<>>]

\* event_data.query(f'{event_column} == "{event_name}"')
EventFrame(data, event_column, event_name) ==
    SelectSeq(data, LAMBDA row : row[event_column] = event_name)

\* frame[key].values
ColumnValues(frame, key) == [i \in 1..Len(frame) |-> frame[i][key]]

\* np.ones(n)
Ones(n) == [i \in 1..n |-> 1]

\* conf_data[regressor].values: the column's values over all rows
ConfoundValues(regressor, rows) == [column |-> regressor[1], rows |-> rows]

Raise(acc, exception, i) == [acc EXCEPT !.error = exception, !.at = i]

\* AddCondition with the new condition inserted in front of the lists.
AddConditionInFront(acc, regressor, i, data) ==
    IF Len(regressor) # 2
    THEN Raise(acc, "ValueError", i)
    ELSE IF regressor[1] \notin EventColumns
    THEN Raise(acc, "UndefinedVariableError", i)
    ELSE LET event_frame == EventFrame(data, regressor[1], regressor[2])
         IN  IF event_frame = <<>>
             THEN acc
             ELSE [acc EXCEPT
                     !.info.conditions = <<regressor>> \o @,
                     !.info.onsets =
                         <<ColumnValues(event_frame, "onset")>> \o @,
                     !.info.durations =
                         <<ColumnValues(event_frame, "duration")>> \o @,
                     !.info.amplitudes = <<Ones(Len(event_frame))>> \o @]

\* AddCondition without the `if event_frame.empty: continue` of line 148.
AddConditionKeepingEmpty(acc, regressor, i, data) ==
    IF Len(regressor) # 2
    THEN Raise(acc, "ValueError", i)
    ELSE IF regressor[1] \notin EventColumns
    THEN Raise(acc, "UndefinedVariableError", i)
    ELSE LET event_frame == EventFrame(data, regressor[1], regressor[2])
         IN  [acc EXCEPT
                !.info.conditions = Append(@, regressor),
                !.info.onsets =
                    Append(@, ColumnValues(event_frame, "onset")),
                !.info.durations =
                    Append(@, ColumnValues(event_frame, "duration")),
                !.info.amplitudes = Append(@, Ones(Len(event_frame)))]

\* The event-derived branch of the loop body of _get_model_info.
AddCondition(acc, regressor, i, data) ==
    IF Len(regressor) # 2
    THEN Raise(acc, "ValueError", i)
    ELSE IF regressor[1] \notin EventColumns
    THEN Raise(acc, "UndefinedVariableError", i)
    ELSE LET event_frame == EventFrame(data, regressor[1], regressor[2])
         IN  IF event_frame = <<>>
             THEN acc
             ELSE [acc EXCEPT
                     !.info.conditions = Append(@, regressor),
                     !.info.onsets =
                         Append(@, ColumnValues(event_frame, "onset")),
                     !.info.durations =
                         Append(@, ColumnValues(event_frame, "duration")),
                     !.info.amplitudes = Append(@, Ones(Len(event_frame)))]

\* The confound-derived branch of the loop body of _get_model_info.
AddConfound(acc, regressor, i, rows) ==
    IF regressor[1] \notin ConfoundColumns
    THEN Raise(acc, "KeyError", i)
    ELSE [acc EXCEPT
            !.info.regressor_names = Append(@, regressor),
            !.info.regressors = Append(@, ConfoundValues(regressor, rows))]

\* One iteration of `for regressor in level_model['Model']['X']`.
AddRegressor(acc, regressor, i, data, rows) ==
    IF Len(regressor) > 1
    THEN AddCondition(acc, regressor, i, data)
    ELSE AddConfound(acc, regressor, i, rows)

RECURSIVE ModelInfoLoop(_, _, _, _, _)
ModelInfoLoop(X, i, acc, data, rows) ==
    IF i > Len(X) \/ acc.error # "none"
    THEN acc
    ELSE ModelInfoLoop(X, i + 1, AddRegressor(acc, X[i], i, data, rows),
                       data, rows)

\* _get_model_info: the compiled run_info, or the exception that ended it.
GetModelInfoResult(m, data, rows) ==
    ModelInfoLoop(m.X, 1, [info |-> EmptyRunInfo, error |-> "none", at |-> 0],
                  data, rows)

\* str.upper() on a contrast type
Upper(t) == CASE t = "t" -> "T" [] t = "f" -> "F" [] OTHER -> t

\* The candidates of the dummy contrasts (lines 173-176).
DummyCandidates(m) ==
    IF m.DummyContrasts.hasConditions
    THEN m.DummyContrasts.Conditions
    ELSE m.X

\* DummySkipped without the test for a dot: every candidate that is no
\* matched condition is skipped.
DummySkippedIfUnmatched(dcontrast, event_names) ==
    dcontrast \notin Range(event_names)

\* `dcontrast not in event_names and '.' in dcontrast`
DummySkipped(dcontrast, event_names) ==
    dcontrast \notin Range(event_names) /\ Len(dcontrast) > 1

RECURSIVE DummyLoop(_, _, _, _)
DummyLoop(candidates, i, event_names, acc) ==
    IF i > Len(candidates) THEN acc
    ELSE DummyLoop(candidates, i + 1, event_names,
            IF DummySkipped(candidates[i], event_names)
            THEN acc
            ELSE [acc EXCEPT
                    !.spec = Append(@, <<candidates[i], "T",
                                         <<candidates[i]>>, <<Frac(1)>> >>),
                    !.names = Append(@, candidates[i])])

\* `not set(event_names).issubset(contrast['ConditionList'])`
ContrastSkipped(contrast, event_names) ==
    ~ (Range(event_names) \subseteq Range(contrast.ConditionList))

\* WeightVector with weight 1 for every condition.
WeightVectorOfOnes(event_names) ==
    [i \in 1..Len(event_names) |-> <<1, 1>>]

\* [1 * 1 / len(event_names)] * len(event_names)
WeightVector(event_names) ==
    [i \in 1..Len(event_names) |-> <<1, Len(event_names)>>]

\* AddContrast with the matched conditions of the run as the condition list
\* of every named contrast.
AddContrastWithEventNames(acc, contrast, event_names) ==
    IF ContrastSkipped(contrast, event_names)
    THEN acc
    ELSE IF contrast.Name = <<"task_vs_baseline">> /\ Len(event_names) = 0
    THEN [acc EXCEPT !.error = "ZeroDivisionError"]
    ELSE [acc EXCEPT
            !.names = Append(@, contrast.Name),
            !.spec = Append(@, <<contrast.Name, Upper(contrast.Type),
                                 event_names,
                                 IF contrast.Name = <<"task_vs_baseline">>
                                 THEN WeightVector(event_names)
                                 ELSE contrast.Weights>>)]

\* One iteration of `for contrast in real_contrasts`.
AddContrast(acc, contrast, event_names) ==
    IF ContrastSkipped(contrast, event_names)
    THEN acc
    ELSE IF contrast.Name = <<"task_vs_baseline">>
    THEN IF Len(event_names) = 0
         THEN [acc EXCEPT !.error = "ZeroDivisionError"]
         ELSE [acc EXCEPT
                 !.names = Append(@, contrast.Name),
                 !.spec = Append(@, <<contrast.Name, Upper(contrast.Type),
                                      event_names,
                                      WeightVector(event_names)>>)]
    ELSE [acc EXCEPT
            !.names = Append(@, contrast.Name),
            !.spec = Append(@, <<contrast.Name, Upper(contrast.Type),
                                 contrast.ConditionList, contrast.Weights>>)]

RECURSIVE ContrastLoop(_, _, _, _)
ContrastLoop(real_contrasts, i, event_names, acc) ==
    IF i > Len(real_contrasts) \/ acc.error # "none"
    THEN acc
    ELSE ContrastLoop(real_contrasts, i + 1, event_names,
                      AddContrast(acc, real_contrasts[i], event_names))

\* _get_contrasts: contrast_spec and contrast_names, or the exception.
GetContrastsResult(m, event_names) ==
    LET start == [spec |-> <<>>, names |-> <<>>, error |-> "none"]
    IN  IF ~ m.DummyContrasts.present
        THEN [start EXCEPT !.error = "KeyError"]
        ELSE ContrastLoop(m.Contrasts, 1, event_names,
                 DummyLoop(DummyCandidates(m), 1, event_names, start))

\* _get_entities: run_entities is updated in place for each contrast and
\* a copy of it is appended.
RECURSIVE GetEntitiesLoop(_, _, _)
GetEntitiesLoop(contrasts, i, acc) ==
    IF i > Len(contrasts) THEN acc
    ELSE LET updated == Update(acc.run_entities,
                               [contrast |-> contrasts[i][1]])
         IN  GetEntitiesLoop(contrasts, i + 1,
                 [run_entities |-> updated,
                  contrast_entities |-> Append(acc.contrast_entities, updated)])

GetEntitiesResult(contrasts, entities) ==
    GetEntitiesLoop(contrasts, 1,
                    [run_entities |-> entities, contrast_entities |-> <<>>])

\* `if self.inputs.detrend_poly:` None and 0 are both false
Truthy(option) == option # <<>> /\ option[1] # 0

\* f'legendre{i:02d}'
PolynomialName(i) == <<"legendre" \o Pad2(i)>>

\* legendre(i)(np.linspace(-1, 1, rows))
PolynomialArray(i, rows) == [legendre |-> i, rows |-> rows]

\* _detrend_polynomial: range(0, detrend_poly + 1)
PolynomialNames(degree) == [k \in 1..(degree + 1) |-> PolynomialName(k - 1)]
PolynomialArrays(degree, rows) ==
    [k \in 1..(degree + 1) |-> PolynomialArray(k - 1, rows)]

\* --------------------------------------------- GenerateHigherInfo helpers
\* At the higher level a contrast name is the sequence of its '_'-separated
\* words: "go_minus_stop" is <<"go", "minus", "stop">>.
ContrastGo == <<"go">>
ContrastGoMinusStop == <<"go", "minus", "stop">>
ContrastStop == <<"stop">>

\* str.title() of a word of a contrast name
Title(word) ==
    CASE word = "go" -> "Go"
      [] word = "minus" -> "Minus"
      [] word = "stop" -> "Stop"
      [] OTHER -> word

RECURSIVE JoinTitled(_, _)
JoinTitled(words, i) ==
    IF i > Len(words) THEN "" ELSE Title(words[i]) \o JoinTitled(words, i + 1)

\* utils.snake_to_camel: words[0] + ''.join(word.title() for word in words[1:])
SnakeToCamel(words) == <<words[1] \o JoinTitled(words, 2)>>

\* A stat map of the previous level: the image in the file and its entities.
Image(affine, data) == [affine |-> affine, data |-> data]

StatMap(image, entities) == [File |-> image, Metadata |-> entities]

RunEntities(run, contrast, dof) ==
    [subject |-> "01", task |-> "stopsignal", run |-> run,
     contrast |-> contrast, DegreesOfFreedom |-> dof]

WithStat(entities, stat) == Update(entities, [stat |-> stat])

StatMapPool ==
    { StatMap(Image("A1", <<3, 5>>),
              WithStat(RunEntities("01", ContrastGo, 116), "effect")),
      StatMap(Image("A1", <<1, 2>>),
              WithStat(RunEntities("01", ContrastGo, 116), "variance")),
      StatMap(Image("A2", <<7, 9>>),
              WithStat(RunEntities("02", ContrastGo, 98), "effect")),
      StatMap(Image("A2", <<4, 6>>),
              WithStat(RunEntities("02", ContrastGo, 98), "variance")),
      StatMap(Image("A1", <<2, 8>>),
              WithStat(RunEntities("01", ContrastGoMinusStop, 116), "effect")),
      StatMap(Image("A1", <<1, 1>>),
              WithStat(RunEntities("01", ContrastGoMinusStop, 116),
                       "variance")),
      StatMap(Image("A1", <<0, 4>>),
              WithStat(RunEntities("01", ContrastGo, 116), "zscore")),
      StatMap(Image("A2", <<6, 6>>), RunEntities("02", ContrastGo, 98)) }

\* The DummyContrasts section of the higher-level model.
HigherDummyChoices ==
    { [present |-> FALSE, hasConditions |-> FALSE, Conditions |-> <<>>],
      [present |-> TRUE, hasConditions |-> FALSE, Conditions |-> <<>>],
      [present |-> TRUE, hasConditions |-> TRUE,
       Conditions |-> <<ContrastGo>>],
      [present |-> TRUE, hasConditions |-> TRUE,
       Conditions |-> <<ContrastGo, ContrastStop>>] }

\* align_volumes: None, or a run index.
AlignChoices == {<<>>, <<0>>, <<2>>}

EmptyMapsInfo ==
    [effect_maps |-> <<>>, dof_maps |-> <<>>, variance_maps |-> <<>>,
     map_entities |-> <<>>, mask_files |-> <<>>]

EmptyMatrixPaths ==
    [design_matrices |-> <<>>, contrast_matrices |-> <<>>,
     covariance_matrices |-> <<>>]

\* A file system directory: a function from the paths of its files.
EmptyFiles == [path \in {} |-> path]
WriteFile(files, path, content) == (path :> content) @@ files

\* The bucket of a contrast in the organization.
HasBucket(org, contrast) == \E k \in 1..Len(org) : org[k].contrast = contrast
Bucket(org, contrast) ==
    LET k == CHOOSE k \in 1..Len(org) : org[k].contrast = contrast
    IN  org[k].items

\* One iteration of the loop of _get_organization (lines 304-308).
Organize(org, item) ==
    IF HasBucket(org, item.Metadata.contrast)
    THEN [k \in 1..Len(org) |->
            IF org[k].contrast = item.Metadata.contrast
            THEN [org[k] EXCEPT !.items = Append(@, item)]
            ELSE org[k]]
    ELSE Append(org, [contrast |-> item.Metadata.contrast,
                      items |-> <<item>>])

RECURSIVE OrganizeLoop(_, _, _)
OrganizeLoop(zip, i, org) ==
    IF i > Len(zip) THEN org
    ELSE OrganizeLoop(zip, i + 1, Organize(org, zip[i]))

\* organization.keys()
Keys(org) == [k \in 1..Len(org) |-> org[k].contrast]

\* lines 312-317
DummyContrastsOf(m, org) ==
    IF ~ m.present THEN <<>>
    ELSE IF m.hasConditions THEN m.Conditions
    ELSE Keys(org)

\* np.ones_like(data) * DegreesOfFreedom, as an image with the same affine
DofImage(image, dof) ==
    Image(image.affine, [v \in 1..Len(image.data) |-> 1 * dof])

\* CollectMap with each effect map and its DOF image inserted in front.
CollectMapInFront(info, bids_info) ==
    IF "stat" \notin DOMAIN bids_info.Metadata
    THEN info
    ELSE LET collected ==
                 IF bids_info.Metadata.stat = "effect"
                 THEN [info EXCEPT
                         !.dceffect_maps = <<bids_info.File>> \o @,
                         !.dcdof_maps =
                             <<DofImage(bids_info.File,
                                   bids_info.Metadata.DegreesOfFreedom)>>
                                 \o @]
                 ELSE IF bids_info.Metadata.stat = "variance"
                 THEN [info EXCEPT
                         !.dcvariance_maps = Append(@, bids_info.File)]
                 ELSE info
         IN  [collected EXCEPT !.dcentities = bids_info.Metadata]

\* One iteration of `for bids_info in organization[dcontrast]`.
CollectMap(info, bids_info) ==
    IF "stat" \notin DOMAIN bids_info.Metadata
    THEN info
    ELSE LET collected ==
                 IF bids_info.Metadata.stat = "effect"
                 THEN [info EXCEPT
                         !.dceffect_maps = Append(@, bids_info.File),
                         !.dcdof_maps =
                             Append(@, DofImage(bids_info.File,
                                    bids_info.Metadata.DegreesOfFreedom))]
                 ELSE IF bids_info.Metadata.stat = "variance"
                 THEN [info EXCEPT
                         !.dcvariance_maps = Append(@, bids_info.File)]
                 ELSE info
         IN  [collected EXCEPT !.dcentities = bids_info.Metadata]

RECURSIVE CollectLoop(_, _, _)
CollectLoop(items, i, info) ==
    IF i > Len(items) THEN info
    ELSE CollectLoop(items, i + 1, CollectMap(info, items[i]))

\* nb.concat_images: the images along a new last axis, with the affine of
\* the first one.
ConcatImages(images) ==
    Image(images[1].affine, [k \in 1..Len(images) |-> images[k].data])

\* LastAxis reading the first axis of the merged image instead of the last.
FirstAxis(merged) == Len(merged.data[1])

\* merged_statmap.shape[-1]
LastAxis(merged) == Len(merged.data)

\* dict.pop(key, None)
Pop(d, key) == [k \in (DOMAIN d) \ {key} |-> d[k]]

\* build_path(ents, merged_patt)
MergedPath(ents) ==
    [subject |-> ents.subject, contrast |-> ents.contrast,
     stat |-> ents.stat, desc |-> "merged"]

\* build_path(ents, mask_patt)
MaskPath(ents) ==
    [subject |-> ents.subject, task |-> ents.task, run |-> ents.run,
     desc |-> "brain"]

\* lines 372-375
MaskRun(align) == IF align = <<>> \/ align[1] = 0 THEN 1 ELSE align[1]

\* The body of `for dcontrast in dummy_contrasts` (lines 330-378).
MergeContrast(acc, dcontrast, org, align) ==
    IF ~ HasBucket(org, dcontrast)
    THEN [acc EXCEPT !.error = "KeyError"]
    ELSE
    LET collected ==
            CollectLoop(Bucket(org, dcontrast), 1,
                        [dceffect_maps |-> <<>>, dcvariance_maps |-> <<>>,
                         dcdof_maps |-> <<>>, dcentities |-> EmptyDict])
    IN  IF collected.dceffect_maps = <<>> \/ collected.dcvariance_maps = <<>>
        THEN [acc EXCEPT !.error = "ValueError"]
        ELSE
        LET effect == ConcatImages(collected.dceffect_maps)
            variance == ConcatImages(collected.dcvariance_maps)
            dof == ConcatImages(collected.dcdof_maps)
            dcentities ==
                Pop(Update(collected.dcentities,
                           [NumLevelTimepoints |-> LastAxis(effect)]),
                    "stat")
            ents == Update(Pop(dcentities, "run"),
                           [contrast |-> SnakeToCamel(dcentities.contrast)])
            effect_path == MergedPath(Update(ents, [stat |-> "effect"]))
            variance_path == MergedPath(Update(ents, [stat |-> "variance"]))
            dof_path == MergedPath(Update(ents, [stat |-> "dof"]))
            mask_path == MaskPath(Update(ents, [stat |-> "dof",
                                                run |-> MaskRun(align)]))
        IN  [acc EXCEPT
               !.info.map_entities = Append(@, dcentities),
               !.info.effect_maps = Append(@, effect_path),
               !.info.variance_maps = Append(@, variance_path),
               !.info.dof_maps = Append(@, dof_path),
               !.info.mask_files = Append(@, mask_path),
               !.images =
                   WriteFile(WriteFile(WriteFile(@, effect_path, effect),
                                       variance_path, variance),
                             dof_path, dof)]

RECURSIVE MergeLoop(_, _, _, _, _)
MergeLoop(dcontrasts, i, acc, org, align) ==
    IF i > Len(dcontrasts) \/ acc.error # "none" THEN acc
    ELSE MergeLoop(dcontrasts, i + 1,
                   MergeContrast(acc, dcontrasts[i], org, align), org, align)

\* _merge_maps: the returned lists and the images saved, or the exception.
MergeMapsResult(org, dcontrasts, align, images) ==
    MergeLoop(dcontrasts, 1,
              [info |-> EmptyMapsInfo, images |-> images, error |-> "none"],
              org, align)

\* A line of a matrix file: a keyword, a number, a name, each optional.
Line(key, number, name) == [key |-> key, number |-> number, name |-> name]
BlankLine == Line("", <<>>, <<>>)
OneLine == Line("", <<1>>, <<>>)
MatrixLine == Line("/Matrix", <<>>, <<>>)

\* header_lines[matrix_type], formatted with contrast and numcopes
HeaderLines(matrix_type, contrast, numcopes) ==
    CASE matrix_type = "contrast" ->
            << Line("/ContrastName1", <<>>, contrast),
               Line("/NumWaves", <<1>>, <<>>),
               Line("/NumPoints", <<1>>, <<>>), BlankLine,
               MatrixLine,
               OneLine >>
      [] matrix_type = "design" ->
            << Line("/NumWaves", <<1>>, <<>>),
               Line("/NumPoints", <<numcopes>>, <<>>),
               Line("/PPHeights", <<1>>, <<>>), BlankLine,
               MatrixLine >>
      [] matrix_type = "covariance" ->
            << Line("/NumWaves", <<1>>, <<>>),
               Line("/NumPoints", <<numcopes>>, <<>>), BlankLine,
               MatrixLine >>

\* lines 416-418
BodyLines(matrix_type, numcopes) ==
    IF matrix_type = "covariance"
    THEN [k \in 1..numcopes |-> OneLine]
    ELSE <<>>

\* build_path(ents, matrix_patt)
MatrixPath(ents) ==
    [subject |-> ents.subject, contrast |-> ents.contrast,
     desc |-> ents.desc]

\* open(matrix_path, 'a') and the writes that follow
AppendToFile(files, path, lines) ==
    IF path \in DOMAIN files
    THEN WriteFile(files, path, files[path] \o lines)
    ELSE WriteFile(files, path, lines)

MatrixTypes == <<"design", "contrast", "covariance">>

\* The body of `for matrix_type in [...]` (lines 406-421): ents is the
\* entity copy the three iterations share.
ProduceMatrix(acc, entity, matrix_type) ==
    LET ents == Update(acc.ents, [desc |-> "contrast"])
        matrix_path == MatrixPath(ents)
        contrast == ents.contrast
        numcopes == ents.NumLevelTimepoints
        key == matrix_type \o "_matrices"
    IN  [ents |-> Update(ents, [contrast |-> SnakeToCamel(entity.contrast)]),
         files |-> AppendToFile(acc.files, matrix_path,
                       HeaderLines(matrix_type, contrast, numcopes)
                           \o BodyLines(matrix_type, numcopes)),
         paths |-> [acc.paths EXCEPT ![key] = Append(@, matrix_path)]]

RECURSIVE MatrixTypeLoop(_, _, _)
MatrixTypeLoop(acc, entity, t) ==
    IF t > Len(MatrixTypes) THEN acc
    ELSE MatrixTypeLoop(ProduceMatrix(acc, entity, MatrixTypes[t]),
                        entity, t + 1)

RECURSIVE EntityLoop(_, _, _)
EntityLoop(entities, i, acc) ==
    IF i > Len(entities) THEN acc
    ELSE EntityLoop(entities, i + 1,
                    MatrixTypeLoop([acc EXCEPT !.ents = entities[i]],
                                   entities[i], 1))

\* _produce_matrices: the returned path lists and the matrix files.
ProduceMatricesResult(entities, files) ==
    EntityLoop(entities, 1,
               [ents |-> EmptyDict, files |-> files,
                paths |-> EmptyMatrixPaths])

\* The aggregator's part of the state while the run level is explored.
HigherIdle ==
    /\ contrast_maps = <<>>
    /\ higher_model = [present |-> FALSE, hasConditions |-> FALSE,
                       Conditions |-> <<>>]
    /\ align_volumes = <<>>
    /\ hpc = "idle"
    /\ herror = "none"
    /\ invocations = 0
    /\ organization = <<>>
    /\ dummy_contrasts = <<>>
    /\ maps_info = EmptyMapsInfo
    /\ matrix_paths = EmptyMatrixPaths
    /\ image_files = EmptyFiles
    /\ matrix_files = EmptyFiles

\* --------------------------------------------- GetRunModelInfo: the state
Models ==
    { [X |-> x, Contrasts |-> c, DummyContrasts |-> d] :
        x \in SeqsUpTo(PredictorPool, MaxX),
        c \in SubSeqsOf(ContrastPool),
        d \in DummyChoices }

Init ==
    /\ model \in Models
    /\ detrend_poly \in DetrendChoices
    /\ event_data \in SubSeqsOf(EventRowPool)
    /\ n_rows \in VolumeChoices
    /\ pc = "required_files"
    /\ error = "none"
    /\ error_at = 0
    /\ run_info = EmptyRunInfo
    /\ event_regressors = <<>>
    /\ run_contrasts = <<>>
    /\ contrast_names = <<>>
    /\ run_entities = EmptyDict
    /\ contrast_entities = <<>>
    /\ HigherIdle

\* _get_required_files (lines 99-101, 119-127): the run's entities
GetRequiredFiles ==
    /\ pc = "required_files"
    /\ run_entities' =
          Update(FunctionalEntities, [run |-> Pad2(FunctionalEntities.run)])
    /\ pc' = "model_info"
    /\ UNCHANGED <<model, detrend_poly, event_data, n_rows, error, error_at,
                   run_info, event_regressors, run_contrasts, contrast_names,
                   contrast_entities>>
    /\ UNCHANGED higherVars

\* lines 70-72
GetModelInfo ==
    /\ pc = "model_info"
    /\ LET result == GetModelInfoResult(model, event_data, n_rows)
       IN  /\ error' = result.error
           /\ error_at' = result.at
           /\ IF result.error = "none"
              THEN /\ run_info' = result.info
                   /\ event_regressors' = result.info.conditions
                   /\ pc' = "contrasts"
              ELSE /\ UNCHANGED <<run_info, event_regressors>>
                   /\ pc' = "failed"
    /\ UNCHANGED <<model, detrend_poly, event_data, n_rows, run_contrasts,
                   contrast_names, run_entities, contrast_entities>>
    /\ UNCHANGED higherVars

\* lines 73-75
GetContrasts ==
    /\ pc = "contrasts"
    /\ LET result == GetContrastsResult(model, event_regressors)
       IN  /\ error' = result.error
           /\ IF result.error = "none"
              THEN /\ run_contrasts' = result.spec
                   /\ contrast_names' = result.names
                   /\ pc' = "entities"
              ELSE /\ UNCHANGED <<run_contrasts, contrast_names>>
                   /\ pc' = "failed"
    /\ UNCHANGED <<model, detrend_poly, event_data, n_rows, error_at,
                   run_info, event_regressors, run_entities,
                   contrast_entities>>
    /\ UNCHANGED higherVars

\* len(all_regressors) of line 76
RegressorCount(conditions, regressor_names) ==
    Len(conditions \o regressor_names)

\* lines 76-83
UpdateEntities ==
    /\ pc = "entities"
    /\ LET n_vols == n_rows
           updated ==
               Update(run_entities,
                      [Volumes |-> n_vols,
                       DegreesOfFreedom |->
                           n_vols - RegressorCount(event_regressors,
                                                   run_info.regressor_names)])
           result == GetEntitiesResult(run_contrasts, updated)
       IN  /\ run_entities' = result.run_entities
           /\ contrast_entities' = result.contrast_entities
    /\ pc' = "detrend"
    /\ UNCHANGED <<model, detrend_poly, event_data, n_rows, error, error_at,
                   run_info, event_regressors, run_contrasts, contrast_names>>
    /\ UNCHANGED higherVars

\* lines 85-91
Detrend ==
    /\ pc = "detrend"
    /\ IF Truthy(detrend_poly)
       THEN run_info' =
              [run_info EXCEPT
                 !.regressor_names = @ \o PolynomialNames(detrend_poly[1]),
                 !.regressors =
                     @ \o PolynomialArrays(detrend_poly[1], n_rows)]
       ELSE UNCHANGED run_info
    /\ pc' = "done"
    /\ UNCHANGED <<model, detrend_poly, event_data, n_rows, error, error_at,
                   event_regressors, run_contrasts, contrast_names,
                   run_entities, contrast_entities>>
    /\ UNCHANGED higherVars

Next ==
    \/ GetRequiredFiles
    \/ GetModelInfo
    \/ GetContrasts
    \/ UpdateEntities
    \/ Detrend

Spec == Init /\ [][Next]_vars

\* ------------------------------------------- GenerateHigherInfo: the state
\* The run level's part of the state while the aggregator is explored.
RunIdle ==
    /\ model = [X |-> <<>>, Contrasts |-> <<>>,
                DummyContrasts |-> [present |-> FALSE,
                                    hasConditions |-> FALSE,
                                    Conditions |-> <<>>]]
    /\ detrend_poly = <<>>
    /\ event_data = <<>>
    /\ n_rows = 0
    /\ pc = "idle"
    /\ error = "none"
    /\ error_at = 0
    /\ run_info = EmptyRunInfo
    /\ event_regressors = <<>>
    /\ run_contrasts = <<>>
    /\ contrast_names = <<>>
    /\ run_entities = EmptyDict
    /\ contrast_entities = <<>>

InitHigher ==
    /\ RunIdle
    /\ contrast_maps \in DistinctSeqsUpTo(StatMapPool, MaxMaps)
    /\ higher_model \in HigherDummyChoices
    /\ align_volumes \in AlignChoices
    /\ hpc = "organization"
    /\ herror = "none"
    /\ invocations = 1
    /\ organization = <<>>
    /\ dummy_contrasts = <<>>
    /\ maps_info = EmptyMapsInfo
    /\ matrix_paths = EmptyMatrixPaths
    /\ image_files = EmptyFiles
    /\ matrix_files = EmptyFiles

\* line 277
GetOrganization ==
    /\ hpc = "organization"
    /\ LET org == OrganizeLoop(contrast_maps, 1, <<>>)
       IN  /\ organization' = org
           /\ dummy_contrasts' = DummyContrastsOf(higher_model, org)
    /\ hpc' = "merge"
    /\ UNCHANGED <<contrast_maps, higher_model, align_volumes, herror,
                   invocations, maps_info, matrix_paths, image_files,
                   matrix_files>>
    /\ UNCHANGED runVars

\* lines 278-282: the images saved before an exception stay on disk
MergeMaps ==
    /\ hpc = "merge"
    /\ LET result == MergeMapsResult(organization, dummy_contrasts,
                                     align_volumes, image_files)
       IN  /\ herror' = result.error
           /\ image_files' = result.images
           /\ IF result.error = "none"
              THEN maps_info' = result.info /\ hpc' = "matrices"
              ELSE UNCHANGED maps_info /\ hpc' = "failed"
    /\ UNCHANGED <<contrast_maps, higher_model, align_volumes, invocations,
                   organization, dummy_contrasts, matrix_paths, matrix_files>>
    /\ UNCHANGED runVars

\* lines 283-292
ProduceMatrices ==
    /\ hpc = "matrices"
    /\ LET result == ProduceMatricesResult(maps_info.map_entities,
                                           matrix_files)
       IN  /\ matrix_paths' = result.paths
           /\ matrix_files' = result.files
    /\ hpc' = "done"
    /\ UNCHANGED <<contrast_maps, higher_model, align_volumes, herror,
                   invocations, organization, dummy_contrasts, maps_info,
                   image_files>>
    /\ UNCHANGED runVars

\* The interface runs again on the same inputs in the same directory
\* (_always_run = True): its outputs start empty, the files stay.
Rerun ==
    /\ hpc = "done"
    /\ invocations < MaxInvocations
    /\ invocations' = invocations + 1
    /\ hpc' = "organization"
    /\ organization' = <<>>
    /\ dummy_contrasts' = <<>>
    /\ maps_info' = EmptyMapsInfo
    /\ matrix_paths' = EmptyMatrixPaths
    /\ UNCHANGED <<contrast_maps, higher_model, align_volumes, herror,
                   image_files, matrix_files>>
    /\ UNCHANGED runVars

NextHigher ==
    \/ GetOrganization
    \/ MergeMaps
    \/ ProduceMatrices
    \/ Rerun

SpecHigher == InitHigher /\ [][NextHigher]_vars

\* ------------------------------------------- claims about GetRunModelInfo
\* The states in which _get_model_info has returned and run_info has not
\* yet been extended by the detrend terms.
ModelInfoReturned == pc \in {"contrasts", "entities", "detrend"}

\* The states in which _get_contrasts has returned.
ContrastsReturned == pc \in {"entities", "detrend", "done"}

\* An event row matches the predictor <column>.<value>.
RowMatches(row, predictor) ==
    /\ predictor[1] \in DOMAIN row
    /\ row[predictor[1]] = predictor[2]

\* The rows of the event table that match the predictor, in table order.
MatchingRows(predictor) ==
    SelectSeq(event_data, LAMBDA row : RowMatches(row, predictor))

\* The predictor is event-derived and at least one event row matches it.
Matched(predictor) ==
    Len(predictor) = 2 /\ MatchingRows(predictor) # <<>>

\* The predictor has the form <column>.<value> and no event row matches it.
ZeroMatch(predictor) ==
    Len(predictor) = 2 /\ MatchingRows(predictor) = <<>>

Occurrences(s, x) == Cardinality({ i \in 1..Len(s) : s[i] = x })

\* C1: when _get_model_info returns, conditions is the subsequence of X of
\* the <column>.<value> predictors that match at least one event row and
\* regressor_names is the subsequence of X of the predictors without a dot,
\* both in the order of X; the two lists are disjoint and no predictor is in
\* a list more often than it is in X.
C1_ConditionsAndRegressorsFollowX ==
    ModelInfoReturned =>
        /\ run_info.conditions = SelectSeq(model.X, Matched)
        /\ event_regressors = run_info.conditions
        /\ run_info.regressor_names =
               SelectSeq(model.X, LAMBDA p : Len(p) = 1)
        /\ Range(run_info.conditions) \cap Range(run_info.regressor_names) = {}
        /\ \A p \in PredictorPool :
              /\ Occurrences(run_info.conditions, p) <= Occurrences(model.X, p)
              /\ Occurrences(run_info.regressor_names, p)
                     <= Occurrences(model.X, p)

\* C1 witness: two conditions compiled in the order of X, which is not the
\* order of the event table.
C1_Witness ==
    /\ ModelInfoReturned
    /\ model.X = <<TrialStop, TrialGo>>
    /\ run_info.conditions = <<TrialStop, TrialGo>>

\* C1 witness of the confound side is part of C4's witness.

\* The four event-derived lists of run_info are parallel and entry i of each
\* belongs to condition i; no condition has an empty entry.
ParallelEventLists ==
    /\ Len(run_info.onsets) = Len(run_info.conditions)
    /\ Len(run_info.durations) = Len(run_info.conditions)
    /\ Len(run_info.amplitudes) = Len(run_info.conditions)
    /\ \A i \in 1..Len(run_info.conditions) :
          LET rows == MatchingRows(run_info.conditions[i])
          IN  /\ rows # <<>>
              /\ run_info.onsets[i] = [k \in 1..Len(rows) |-> rows[k].onset]
              /\ run_info.durations[i] =
                     [k \in 1..Len(rows) |-> rows[k].duration]
              /\ Len(run_info.amplitudes[i]) = Len(rows)
              /\ \A k \in 1..Len(rows) : run_info.amplitudes[i][k] = 1

\* A predictor of X without a matching row is in no list, and every matched
\* predictor of X is compiled.
ZeroMatchOmitted ==
    \A i \in 1..Len(model.X) :
        /\ ZeroMatch(model.X[i]) => model.X[i] \notin Range(run_info.conditions)
        /\ Matched(model.X[i]) => model.X[i] \in Range(run_info.conditions)

C2_DegreesOfFreedomCountsAllRegressors ==
    pc = "done" =>
        LET dof == n_rows - (Len(run_info.conditions)
                             + Len(run_info.regressor_names))
        IN  /\ run_entities.Volumes = n_rows
            /\ run_entities.DegreesOfFreedom = dof
            /\ \A i \in 1..Len(contrast_entities) :
                  contrast_entities[i].DegreesOfFreedom = dof

\* C3: a named contrast of the model is emitted by _get_contrasts, in the
\* names and in the specs, exactly if its ConditionList is a subset of the
\* matched condition names.
C3_NamedContrastNeedsItsConditions ==
    ContrastsReturned =>
        \A k \in 1..Len(model.Contrasts) :
            LET contrast == model.Contrasts[k]
                wanted == Range(contrast.ConditionList)
                              \subseteq Range(event_regressors)
            IN  /\ (contrast.Name \in Range(contrast_names)) <=> wanted
                /\ (\E i \in 1..Len(run_contrasts) :
                        run_contrasts[i][1] = contrast.Name) <=> wanted

RECURSIVE SumOfNumerators(_)
SumOfNumerators(weights) ==
    IF weights = <<>> THEN 0
    ELSE Head(weights)[1] + SumOfNumerators(Tail(weights))

\* C5: an emitted contrast named task_vs_baseline has, for n >= 1 condition
\* names, exactly the condition names as its condition list and n weights
\* 1/n, which sum to 1.
C5_TaskVsBaselineIsTheGrandMean ==
    ContrastsReturned =>
        \A i \in 1..Len(run_contrasts) :
            (run_contrasts[i][1] = <<"task_vs_baseline">>
             /\ Len(event_regressors) >= 1) =>
                LET n == Len(event_regressors)
                    weights == run_contrasts[i][4]
                IN  /\ run_contrasts[i][3] = event_regressors
                    /\ Len(weights) = n
                    /\ \A j \in 1..n :
                          weights[j][1] = 1 /\ weights[j][2] = n
                    /\ SumOfNumerators(weights) = weights[1][2]

\* C5 witness: task_vs_baseline is emitted for a single matched condition,
\* which is not the ConditionList of the model's contrast.
C5_Witness ==
    /\ ContrastsReturned
    /\ event_regressors = <<TrialGo>>
    /\ <<"task_vs_baseline">> \in Range(contrast_names)
    /\ TaskVsBaseline.ConditionList # event_regressors

\* The dummy contrasts among the emitted contrasts: those that are no named
\* contrast of the model.
EmittedDummyNames ==
    SelectSeq(contrast_names,
              LAMBDA name : \A k \in 1..Len(model.Contrasts) :
                               model.Contrasts[k].Name # name)

\* C6: for a model without a DummyContrasts entry _get_contrasts completes
\* without an error, and the dummy contrasts are those of the predictors of
\* X that are matched condition names.
C6_AbsentDummyContrastsMeansAllOfX ==
    (~ model.DummyContrasts.present
     /\ pc \in {"failed", "entities", "detrend", "done"}
     /\ error_at = 0) =>
        /\ error = "none"
        /\ EmittedDummyNames =
               SelectSeq(model.X, LAMBDA p : p \in Range(event_regressors))

\* The end-to-end scenario: both trial types have events, the confound
\* table has 120 rows, nothing is detrended and the model is made of X and
\* one contrast.
Scenario ==
    /\ model.X = <<TrialGo, TrialStop>>
    /\ model.Contrasts = <<GoMinusStop>>
    /\ ~ model.DummyContrasts.present
    /\ Matched(TrialGo) /\ Matched(TrialStop)
    /\ n_rows = 120
    /\ detrend_poly = <<>>

\* C7: the scenario compiles to 2 conditions, 0 regressors, Volumes = 120,
\* DegreesOfFreedom = 118 and three contrasts: go_minus_stop and the two
\* dummy unit contrasts.
C7_EndToEnd ==
    (Scenario /\ pc \in {"failed", "done"}) =>
        /\ pc = "done"
        /\ Len(run_info.conditions) = 2
        /\ Len(run_info.regressor_names) = 0
        /\ run_entities.Volumes = 120
        /\ run_entities.DegreesOfFreedom = 118
        /\ Len(run_contrasts) = 3
        /\ Range(contrast_names) =
               {<<"go_minus_stop">>, TrialGo, TrialStop}

\* ---------------------------------------- claims about GenerateHigherInfo
\* The first invocation in an empty working directory has returned.
FirstInvocationDone == hpc = "done" /\ invocations = 1

\* The lines of a matrix file that follow its first /Matrix line.
RECURSIVE BodyAfterMatrix(_)
BodyAfterMatrix(lines) ==
    IF lines = <<>> THEN <<>>
    ELSE IF Head(lines) = MatrixLine THEN Tail(lines)
    ELSE BodyAfterMatrix(Tail(lines))

\* n lines "1"
OnesBody(n) == [k \in 1..n |-> OneLine]

\* C8: for every merged contrast entity with NumLevelTimepoints = K the
\* design matrix file and the covariance matrix file hold, after their
\* /Matrix line, exactly K lines "1", and the contrast matrix file exactly
\* one line "1".
C8_MatrixBodiesHaveKOnes ==
    FirstInvocationDone =>
        \A i \in 1..Len(maps_info.map_entities) :
            LET K == maps_info.map_entities[i].NumLevelTimepoints
            IN  /\ BodyAfterMatrix(
                       matrix_files[matrix_paths.design_matrices[i]])
                     = OnesBody(K)
                /\ BodyAfterMatrix(
                       matrix_files[matrix_paths.covariance_matrices[i]])
                     = OnesBody(K)
                /\ BodyAfterMatrix(
                       matrix_files[matrix_paths.contrast_matrices[i]])
                     = OnesBody(1)

\* C9: after any number of invocations on the same inputs in the same
\* directory every matrix file has the content one invocation in an empty
\* directory leaves.
C9_RerunLeavesMatrixFilesUnchanged ==
    hpc = "done" =>
        matrix_files =
            ProduceMatricesResult(maps_info.map_entities, EmptyFiles).files

\* The whole content the specification gives the matrix file of a type.
ExpectedMatrixFile(matrix_type, contrast, K) ==
    HeaderLines(matrix_type, contrast, K)
        \o (IF matrix_type = "contrast" THEN <<>> ELSE OnesBody(K))

\* C10: the three matrices of one merged contrast entity are three distinct
\* files, and each file holds only the header block and the body of its own
\* matrix type.
C10_ThreeDistinctMatrixFiles ==
    FirstInvocationDone =>
        \A i \in 1..Len(maps_info.map_entities) :
            LET design == matrix_paths.design_matrices[i]
                contrast == matrix_paths.contrast_matrices[i]
                covariance == matrix_paths.covariance_matrices[i]
                ownHeader(path, matrix_type) ==
                    \E name \in {maps_info.map_entities[i].contrast,
                                 SnakeToCamel(
                                     maps_info.map_entities[i].contrast)} :
                        SubSeq(matrix_files[path], 1,
                               Len(HeaderLines(matrix_type, name, 1)))
                          = HeaderLines(matrix_type, name,
                                maps_info.map_entities[i].NumLevelTimepoints)
            IN  /\ design # contrast
                /\ design # covariance
                /\ contrast # covariance
                /\ ownHeader(design, "design")
                /\ ownHeader(contrast, "contrast")
                /\ ownHeader(covariance, "covariance")
                /\ Cardinality({ k \in 1..Len(matrix_files[design]) :
                       matrix_files[design][k] = MatrixLine }) = 1
                /\ Cardinality({ k \in 1..Len(matrix_files[contrast]) :
                       matrix_files[contrast][k] = MatrixLine }) = 1
                /\ Cardinality({ k \in 1..Len(matrix_files[covariance]) :
                       matrix_files[covariance][k] = MatrixLine }) = 1

\* The states in which _merge_maps has returned.
MergeReturned == hpc \in {"matrices", "done"}

\* The stat kind of an input map, or "" when its entities have no stat key.
StatKind(item) ==
    IF "stat" \in DOMAIN item.Metadata THEN item.Metadata.stat ELSE ""

\* The input maps of a contrast, and those of one stat kind, in input order.
MapsOf(contrast) ==
    SelectSeq(contrast_maps, LAMBDA item : item.Metadata.contrast = contrast)
MapsOfKind(contrast, stat) ==
    SelectSeq(MapsOf(contrast), LAMBDA item : StatKind(item) = stat)

\* C11: the merged entities of a contrast whose bucket holds k maps with
\* stat == 'effect' have NumLevelTimepoints == k, whatever other maps the
\* bucket holds.
C11_NumLevelTimepointsCountsEffectMaps ==
    MergeReturned =>
        \A i \in 1..Len(maps_info.map_entities) :
            maps_info.map_entities[i].NumLevelTimepoints
                = Len(MapsOfKind(maps_info.map_entities[i].contrast,
                                 "effect"))

\* C11 witness: two effect maps are merged from a bucket that also holds a
\* variance map and a map of another stat kind.
C11_Witness ==
    /\ MergeReturned
    /\ Len(maps_info.map_entities) = 1
    /\ maps_info.map_entities[1].NumLevelTimepoints = 2
    /\ Len(MapsOfKind(ContrastGo, "variance")) = 1
    /\ Len(MapsOfKind(ContrastGo, "zscore")) = 1

\* C12: slice i of the merged effect volume is the i-th effect map of the
\* bucket in input order, slice i of the merged DOF volume has every voxel
\* equal to the DegreesOfFreedom of that map's run, both volumes have the
\* same number of slices, the variance maps keep their order too, and a
\* bucket of _get_organization lists the maps of its contrast in input
\* order.
C12_MergedVolumesKeepInputOrder ==
    /\ hpc \in {"merge", "matrices", "done", "failed"} =>
          \A b \in 1..Len(organization) :
              organization[b].items = MapsOf(organization[b].contrast)
    /\ MergeReturned =>
          \A i \in 1..Len(maps_info.map_entities) :
              LET contrast == maps_info.map_entities[i].contrast
                  effects == MapsOfKind(contrast, "effect")
                  variances == MapsOfKind(contrast, "variance")
                  effect == image_files[maps_info.effect_maps[i]]
                  dof == image_files[maps_info.dof_maps[i]]
                  variance == image_files[maps_info.variance_maps[i]]
              IN  /\ Len(effect.data) = Len(effects)
                  /\ Len(dof.data) = Len(effect.data)
                  /\ \A k \in 1..Len(effects) :
                        /\ effect.data[k] = effects[k].File.data
                        /\ Len(dof.data[k]) = Len(effects[k].File.data)
                        /\ \A v \in 1..Len(dof.data[k]) :
                              dof.data[k][v]
                                  = effects[k].Metadata.DegreesOfFreedom
                  /\ variance.data =
                         [k \in 1..Len(variances) |-> variances[k].File.data]

\* C12 witness: the effect map of run 02 is listed before the one of run 01
\* and both are merged.
C12_Witness ==
    /\ MergeReturned
    /\ Len(maps_info.map_entities) = 1
    /\ Len(MapsOfKind(ContrastGo, "effect")) = 2
    /\ MapsOfKind(ContrastGo, "effect")[1].Metadata.run = "02"
    /\ image_files[maps_info.dof_maps[1]].data = <<<<98, 98>>, <<116, 116>>>>

\* C13: the merged entities of a contrast bucket are a copy of the entities
\* of the last map of the bucket in which the keys run and stat are absent
\* and NumLevelTimepoints is recorded; the input entities are unchanged.
C13_MergedEntitiesDropRunAndStat ==
    MergeReturned =>
        \A i \in 1..Len(maps_info.map_entities) :
            LET merged == maps_info.map_entities[i]
                bucket == MapsOf(merged.contrast)
                last == bucket[Len(bucket)].Metadata
            IN  /\ "run" \notin DOMAIN merged
                /\ "stat" \notin DOMAIN merged
                /\ "NumLevelTimepoints" \in DOMAIN merged
                /\ \A key \in (DOMAIN last) \ {"run", "stat"} :
                      key \in DOMAIN merged /\ merged[key] = last[key]
                /\ DOMAIN merged \subseteq
                       ((DOMAIN last) \ {"run", "stat"})
                           \cup {"NumLevelTimepoints"}

\* The contrasts that occur among the input maps, in order of first
\* occurrence.
RECURSIVE FirstOccurrences(_, _)
FirstOccurrences(maps, seen) ==
    IF maps = <<>> THEN <<>>
    ELSE LET contrast == Head(maps).Metadata.contrast
         IN  IF contrast \in seen
             THEN FirstOccurrences(Tail(maps), seen)
             ELSE <<contrast>>
                      \o FirstOccurrences(Tail(maps), seen \cup {contrast})

\* C14: the aggregator produces exactly one merged set (one entry in each
\* of the lists _merge_maps returns and one triple of matrices) for every
\* contrast that occurs among the inputs, whatever the DummyContrasts
\* section of the model holds, and it never fails because a listed
\* condition has no input maps.
C14_OneMergedSetPerInputContrast ==
    /\ herror # "KeyError"
    /\ MergeReturned =>
          LET contrasts == FirstOccurrences(contrast_maps, {})
          IN  /\ [i \in 1..Len(maps_info.map_entities) |->
                     maps_info.map_entities[i].contrast] = contrasts
              /\ Len(maps_info.effect_maps) = Len(contrasts)
              /\ Len(maps_info.variance_maps) = Len(contrasts)
              /\ Len(maps_info.dof_maps) = Len(contrasts)
              /\ Len(maps_info.mask_files) = Len(contrasts)
    /\ hpc = "done" =>
          /\ Len(matrix_paths.design_matrices)
                 = Len(FirstOccurrences(contrast_maps, {}))
          /\ Len(matrix_paths.contrast_matrices)
                 = Len(FirstOccurrences(contrast_maps, {}))
          /\ Len(matrix_paths.covariance_matrices)
                 = Len(FirstOccurrences(contrast_maps, {}))

\* The map has a stat kind that is neither effect nor variance.
Unrecognized(item) == StatKind(item) \notin {"", "effect", "variance"}

\* What _get_organization and _merge_maps return and save, in an empty
\* directory, for the input maps without those of an unrecognized stat kind.
MergeWithoutUnrecognized ==
    LET kept == SelectSeq(contrast_maps, LAMBDA item : ~ Unrecognized(item))
        org == OrganizeLoop(kept, 1, <<>>)
    IN  MergeMapsResult(org, DummyContrastsOf(higher_model, org),
                        align_volumes, EmptyFiles)

\* C15: a map whose stat kind is neither effect nor variance is dropped by
\* _merge_maps: the lists it returns and the images it saves are those of
\* the inputs without that map.
C15_UnrecognizedStatHasNoInfluence ==
    MergeReturned =>
        /\ MergeWithoutUnrecognized.error = "none"
        /\ maps_info = MergeWithoutUnrecognized.info
        /\ image_files = MergeWithoutUnrecognized.images

\* C18: in one invocation the brain mask of every contrast is located with
\* the same run: run 1 when no alignment run is supplied, otherwise the
\* supplied alignment run index, whatever it is; never the run of the
\* last-seen map of the bucket.
C18_MaskRunIsTheAlignmentRun ==
    MergeReturned =>
        \A i \in 1..Len(maps_info.mask_files) :
            maps_info.mask_files[i].run
                = (IF align_volumes = <<>> THEN 1 ELSE align_volumes[1])

\* -------------------------------- further claims about GetRunModelInfo
\* The names of the polynomial regressors, by degree.
LegendreNames ==
    << <<"legendre00">>, <<"legendre01">>, <<"legendre02">>,
       <<"legendre03">> >>

\* C16: if a detrend degree N >= 0 is requested, _list_outputs returns a
\* run_info whose regressor_names are the model's regressors followed by
\* legendre00 .. legendre<N>, N + 1 names in ascending degree, and whose
\* regressors are extended by as many arrays; if none is requested nothing
\* is appended.
C16_DetrendAppendsDegreesZeroToN ==
    pc = "done" =>
        LET base == SelectSeq(model.X, LAMBDA p : Len(p) = 1)
            added == IF detrend_poly = <<>> THEN 0 ELSE detrend_poly[1] + 1
        IN  /\ run_info.regressor_names
                   = base \o SubSeq(LegendreNames, 1, added)
            /\ Len(run_info.regressors) = Len(base) + added
            /\ \A k \in 1..added :
                  run_info.regressors[Len(base) + k]
                      = PolynomialArray(k - 1, n_rows)

\* The predictor is confound-derived and the confound table lacks its
\* column.
MissingConfound(predictor) ==
    Len(predictor) = 1 /\ predictor[1] \notin ConfoundColumns

\* C17: a confound-derived predictor whose column the confound table lacks
\* makes the compile fail and return nothing, whereas neither an
\* event-derived predictor without matching rows (its column being one of
\* the event table, see C4) nor a named contrast that lacks a condition
\* ever produces an error.
C17_OnlyAMissingConfoundFails ==
    /\ (pc \notin {"required_files", "model_info"}
        /\ \E i \in 1..Len(model.X) : MissingConfound(model.X[i]))
          => pc = "failed" /\ error # "none"
    /\ (pc = "failed" /\ error_at > 0) =>
          ~ (ZeroMatch(model.X[error_at])
             /\ model.X[error_at][1] \in EventColumns)
    /\ (pc = "failed" /\ error = "ZeroDivisionError") =>
          \E k \in 1..Len(model.Contrasts) :
              /\ model.Contrasts[k].Name = <<"task_vs_baseline">>
              /\ Range(model.Contrasts[k].ConditionList)
                     \subseteq Range(event_regressors)

\* The candidates of the dummy contrasts as the specification states them.
Candidates ==
    IF model.DummyContrasts.hasConditions
    THEN model.DummyContrasts.Conditions
    ELSE model.X

\* The candidate is a matched condition of this run, or has no dot.
YieldsDummy(candidate) ==
    candidate \in Range(event_regressors) \/ Len(candidate) = 1

UnitContrast(name) == <<name, "T", <<name>>, <<Frac(1)>> >>

ExpectedDummies ==
    LET yielding == SelectSeq(Candidates, YieldsDummy)
    IN  [k \in 1..Len(yielding) |-> UnitContrast(yielding[k])]

NamedContrastNames == { model.Contrasts[k].Name : k \in 1..Len(model.Contrasts) }

\* C19: when _get_contrasts returns, the dummy contrasts are the unit
\* T-contrasts (name, 'T', [name], [1]) of exactly those candidates, in
\* candidate order, that are in condition_names or have no dot, where the
\* candidates are DummyContrasts.Conditions when present and X otherwise;
\* every other emitted contrast is a named contrast of the model.
C19_DummyContrastsAreUnitContrastsOfCandidates ==
    ContrastsReturned =>
        LET n == Len(ExpectedDummies)
        IN  /\ Len(run_contrasts) >= n
            /\ SubSeq(run_contrasts, 1, n) = ExpectedDummies
            /\ \A i \in (n + 1)..Len(run_contrasts) :
                  run_contrasts[i][1] \in NamedContrastNames

\* C19 witness: among the candidates a dotted one that matched no event row
\* yields nothing and one without a dot yields its unit contrast.
C19_Witness ==
    /\ ContrastsReturned
    /\ \E i \in 1..Len(Candidates) :
          Len(Candidates[i]) > 1 /\ ~ YieldsDummy(Candidates[i])
    /\ \E i \in 1..Len(Candidates) :
          /\ Len(Candidates[i]) = 1
          /\ UnitContrast(Candidates[i]) \in Range(run_contrasts)

NamesOf(contrasts) == [k \in 1..Len(contrasts) |-> contrasts[k].Name]

\* The named contrast of the model with this name.
NamedContrast(name) ==
    CHOOSE c \in Range(model.Contrasts) : c.Name = name

\* C20: when _get_contrasts returns, contrast_names is parallel to the
\* contrast specs (same length, contrast_names[i] the name of spec i), the
\* dummy contrasts come first in candidate order and the surviving named
\* contrasts follow in model order, a named contrast other than
\* task_vs_baseline carries the ConditionList and Weights of the model
\* verbatim, and a dummy or task_vs_baseline contrast has as many weights as
\* conditions.
C20_NamesParallelAndContrastsVerbatim ==
    ContrastsReturned =>
        LET total == Len(run_contrasts)
        IN  /\ Len(contrast_names) = total
            /\ \A i \in 1..total : contrast_names[i] = run_contrasts[i][1]
            /\ \E n \in 0..total :
                  /\ SubSeq(contrast_names, 1, n) \in SubSeqsOf(Candidates)
                  /\ SubSeq(contrast_names, n + 1, total)
                         \in SubSeqsOf(NamesOf(model.Contrasts))
                  /\ \A i \in 1..n :
                        Len(run_contrasts[i][4]) = Len(run_contrasts[i][3])
                  /\ \A i \in (n + 1)..total :
                        IF contrast_names[i] = <<"task_vs_baseline">>
                        THEN Len(run_contrasts[i][4]) = Len(run_contrasts[i][3])
                        ELSE LET c == NamedContrast(contrast_names[i])
                             IN  /\ run_contrasts[i][3] = c.ConditionList
                                 /\ run_contrasts[i][4] = c.Weights

\* C20 witness: a dummy contrast, task_vs_baseline and another named
\* contrast, whose ConditionList is not the matched conditions of the run,
\* are emitted together.
C20_Witness ==
    /\ ContrastsReturned
    /\ \E i \in 1..Len(Candidates) :
          UnitContrast(Candidates[i]) \in Range(run_contrasts)
    /\ <<"task_vs_baseline">> \in Range(contrast_names)
    /\ \E i \in 1..Len(run_contrasts) :
          /\ run_contrasts[i][1] = GoMinusStop.Name
          /\ run_contrasts[i][3] # event_regressors

\* The states in which _get_entities has returned.
EntitiesReturned == pc \in {"detrend", "done"}

\* The run entities apart from a `contrast` key.
EntitiesOfTheRun ==
    [k \in (DOMAIN run_entities) \ {"contrast"} |-> run_entities[k]]

\* C21: the compile returns one contrast-entity dictionary per emitted
\* contrast, in contrast order; entry i is the run entities (subject, task,
\* run, Volumes, DegreesOfFreedom) overlaid with `contrast` = name of
\* contrast i, whatever contrasts come later, and the run_entities output
\* has no `contrast` key.
C21_ContrastEntitiesAreCopiesAndRunEntitiesUntouched ==
    EntitiesReturned =>
        /\ Len(contrast_entities) = Len(run_contrasts)
        /\ DOMAIN EntitiesOfTheRun
               = {"subject", "task", "run", "Volumes", "DegreesOfFreedom"}
        /\ run_entities.Volumes = n_rows
        /\ \A i \in 1..Len(run_contrasts) :
              contrast_entities[i]
                  = Update(EntitiesOfTheRun,
                           [contrast |-> run_contrasts[i][1]])
        /\ "contrast" \notin DOMAIN run_entities

====
